---- MODULE Spec2Model ----
(***************************************************************************)
(* Model of the two scripts of energy_and_utilities_billing:               *)
(*   src/extractor/extract.py  (the Fetcher)                               *)
(*   src/postgres/load.py      (the Connector)                             *)
(* Each script is a straight-line sequence of statements run by one        *)
(* process; an unhandled exception ends the process.  A sequence of        *)
(* invocations of one script is modelled by Rerun, which starts a fresh    *)
(* process against the same inputs.                                        *)
(***************************************************************************)
EXTENDS Integers, Sequences, FiniteSets, TLC

\* ------------------------------------------------------------------ bounds
MaxRows == 11        \* longest remote dataset considered
MaxRuns == 2         \* invocations of a script in sequence

\* ------------------------------------------------------- program constants
HeadRows == 10       \* data.head(10)

\* --------------------------------------------------------------- universes
RowVals == {"r1", "r2"}
ColumnLists == {<<"c1">>, <<"c1", "c2">>, <<"c2", "c1">>}
RemoteStatus == {"ok", "unreachable", "malformed"}

EnvNames == {"DB_NAME", "DB_USERNAME", "DB_PASSWORD", "DB_HOST", "DB_PORT"}
Params == {"dbname", "user", "password", "host", "port"}
Val == {"a", "b"}          \* "b" is also what the client library falls back to
FileVal == {"a"}
None == "None"
Unbound == "unbound"       \* a Python name not yet assigned

VARIABLES
    script,      \* which script this sequence of invocations runs
    run,         \* number of the current invocation
    history,     \* observable outcome of each finished invocation
    pc,          \* index of the next statement of the script
    exit,        \* "running", "ok" (exit code 0) or "error" (uncaught exception)
    \* extract.py
    remote,      \* the file behind url: status, rows, columns
    data,        \* <<>> while unbound, else <<DataFrame>>
    stdout,      \* lines printed so far
    requests,    \* network requests issued by this process
    \* load.py
    procEnv,     \* environment the process is started with
    envFile,     \* the .env file: present, pairs
    server,      \* the database server: reachable, expects
    environ,     \* os.environ of the running process
    db_name, db_username, db_password, db_host, db_port,
    conn,        \* "unbound", "open" or "closed"
    connArgs,    \* <<>> before the connection attempt, else <<keyword arguments>>
    wire,        \* what the server has seen from this process
    openConns,   \* sessions currently open on the server
    closes       \* calls of conn.close() by this process

vars == <<script, run, history, pc, exit, remote, data, stdout, requests,
          procEnv, envFile, server, environ,
          db_name, db_username, db_password, db_host, db_port,
          conn, connArgs, wire, openConns, closes>>

fetcherVars == <<remote, data, stdout, requests>>
connectorInputs == <<procEnv, envFile, server>>
connectorLocals == <<db_name, db_username, db_password, db_host, db_port>>
connectorVars == <<procEnv, envFile, server, environ,
                   db_name, db_username, db_password, db_host, db_port,
                   conn, connArgs, wire, openConns, closes>>

\* ------------------------------------------------------------ helpers
Min(a, b) == IF a < b THEN a ELSE b

SeqsUpTo(S, n) == UNION {[1..k -> S] : k \in 0..n}

PartialFns(D, R) == UNION {[S -> R] : S \in SUBSET D}

EmptyFn == [k \in {} |-> None]

\* ------------------------------------------------------------ extract.py
\* Statements of extract.py in program order.
FetcherStmts == <<"read_parquet", "print_head", "print_columns">>

\* Variant: head() that stops one row early.
DfHeadShort(df, n) ==
    [rows |-> SubSeq(df.rows, 1, Min(n - 1, Len(df.rows))), columns |-> df.columns]

\* DataFrame.head(n): the first n rows, all columns.
DfHead(df, n) ==
    [rows |-> SubSeq(df.rows, 1, Min(n, Len(df.rows))), columns |-> df.columns]

\* print(DataFrame): a header line and one line per row; an empty frame
\* prints as "Empty DataFrame" with its columns.
FormatFrame(df) ==
    IF Len(df.rows) = 0
    THEN << [kind |-> "empty", cells |-> df.columns] >>
    ELSE << [kind |-> "header", cells |-> df.columns] >>
         \o [i \in 1..Len(df.rows) |-> [kind |-> "row", cells |-> <<df.rows[i]>>]]

\* print(DataFrame.columns): one listing of the column names.
FormatIndex(cols) == << [kind |-> "columns", cells |-> cols] >>

\* ------------------------------------------------------------ load.py
\* Variant: load_dotenv() called after the first variable has been read.
ConnectorStmtsLateDotenv ==
    <<"get_name", "load_dotenv", "get_username", "get_password",
      "get_host", "get_port", "connect", "close">>

\* Statements of load.py in program order.
ConnectorStmts == <<"load_dotenv", "get_name", "get_username", "get_password",
                    "get_host", "get_port", "connect", "close">>

\* Variant: load_dotenv(override=True), the file wins over the environment.
LoadDotenvOverride(env, file) ==
    IF file.present
    THEN [k \in (DOMAIN env) \cup (DOMAIN file.pairs) |->
             IF k \in DOMAIN file.pairs THEN file.pairs[k] ELSE env[k]]
    ELSE env

\* load_dotenv(): keys of the file are added to the environment; a key that
\* is already set keeps its value (override defaults to False).
LoadDotenv(env, file) ==
    IF file.present
    THEN [k \in (DOMAIN env) \cup (DOMAIN file.pairs) |->
             IF k \in DOMAIN env THEN env[k] ELSE file.pairs[k]]
    ELSE env

\* Variant: os.getenv(name, default) with a fallback value.
GetenvDefault(env, name) == IF name \in DOMAIN env THEN env[name] ELSE "b"

\* os.getenv(name): the value, or None when the name is not set.
Getenv(env, name) == IF name \in DOMAIN env THEN env[name] ELSE None

\* Variant: the port is not passed to the connection attempt.
ConnectKwargsNoPort(name, host, password, username, port) ==
    [dbname |-> name, host |-> host, password |-> password,
     user |-> username, port |-> None]

\* The keyword arguments of psycopg2.connect(...).
ConnectKwargs(name, host, password, username, port) ==
    [dbname |-> name, host |-> host, password |-> password,
     user |-> username, port |-> port]

\* A keyword argument that is None is dropped by the client library, which
\* then uses its own default for that parameter.
LibDefault(p) == "b"
Effective(args, p) == IF args[p] = None THEN LibDefault(p) ELSE args[p]

\* The connection attempt succeeds when the server is reachable and accepts
\* every effective parameter.
ConnectSucceeds(args, srv) ==
    /\ srv.reachable
    /\ \A p \in Params : Effective(args, p) = srv.expects[p]

\* ------------------------------------------------------------ control
Stmts == IF script = "fetcher" THEN FetcherStmts ELSE ConnectorStmts

At(s, name) ==
    /\ script = s
    /\ exit = "running"
    /\ pc \in 1..Len(Stmts)
    /\ Stmts[pc] = name

\* Fall through to the next statement; past the last one the process exits 0.
Advance ==
    /\ pc' = pc + 1
    /\ exit' = IF pc = Len(Stmts) THEN "ok" ELSE "running"

\* An uncaught exception ends the process at the current statement.
Raise ==
    /\ pc' = pc
    /\ exit' = "error"

\* ------------------------------------------------------------ Init
ProcessStart ==
    /\ run = 1
    /\ history = <<>>
    /\ pc = 1
    /\ exit = "running"
    /\ data = <<>>
    /\ stdout = <<>>
    /\ requests = 0
    /\ environ = procEnv
    /\ db_name = Unbound
    /\ db_username = Unbound
    /\ db_password = Unbound
    /\ db_host = Unbound
    /\ db_port = Unbound
    /\ conn = Unbound
    /\ connArgs = <<>>
    /\ wire = <<>>
    /\ openConns = 0
    /\ closes = 0

Remotes ==
    [status : RemoteStatus, rows : SeqsUpTo(RowVals, MaxRows), columns : ColumnLists]

ServerExpects ==
    { [p \in Params |-> "a"],
      [p \in Params |-> "b"],
      [p \in Params |-> IF p \in {"host", "port"} THEN "b" ELSE "a"] }

Servers == [reachable : BOOLEAN, expects : ServerExpects]

EnvFiles ==
    {[present |-> FALSE, pairs |-> EmptyFn]}
    \cup [present : {TRUE}, pairs : PartialFns(EnvNames, FileVal)]

InitFetcher ==
    /\ script = "fetcher"
    /\ remote \in Remotes
    /\ procEnv = EmptyFn
    /\ envFile = [present |-> FALSE, pairs |-> EmptyFn]
    /\ server = [reachable |-> FALSE, expects |-> [p \in Params |-> "a"]]
    /\ ProcessStart

InitConnector ==
    /\ script = "connector"
    /\ remote = [status |-> "unreachable", rows |-> <<>>, columns |-> <<"c1">>]
    /\ procEnv \in PartialFns(EnvNames, Val)
    /\ envFile \in EnvFiles
    /\ server \in Servers
    /\ ProcessStart

Init == InitFetcher \/ InitConnector

\* ------------------------------------------------------------ extract.py steps
\* Variant: a failed read is retried once before giving up.
ReadParquetRetry ==
    /\ At("fetcher", "read_parquet")
    /\ IF remote.status = "ok"
       THEN /\ requests' = requests + 1
            /\ data' = << [rows |-> remote.rows, columns |-> remote.columns] >>
            /\ Advance
       ELSE /\ requests' = requests + 2
            /\ data' = data
            /\ Raise
    /\ UNCHANGED <<script, run, history, remote, stdout>>
    /\ UNCHANGED connectorVars

\* Variant: a failed read is swallowed and the script goes on with an empty frame.
ReadParquetSwallow ==
    /\ At("fetcher", "read_parquet")
    /\ requests' = requests + 1
    /\ data' = IF remote.status = "ok"
               THEN << [rows |-> remote.rows, columns |-> remote.columns] >>
               ELSE << [rows |-> <<>>, columns |-> <<>>] >>
    /\ Advance
    /\ UNCHANGED <<script, run, history, remote, stdout>>
    /\ UNCHANGED connectorVars

\* data = pd.read_parquet(url)
ReadParquet ==
    /\ At("fetcher", "read_parquet")
    /\ requests' = requests + 1
    /\ IF remote.status = "ok"
       THEN /\ data' = << [rows |-> remote.rows, columns |-> remote.columns] >>
            /\ Advance
       ELSE /\ data' = data
            /\ Raise
    /\ UNCHANGED <<script, run, history, remote, stdout>>
    /\ UNCHANGED connectorVars

\* print(data.head(10))
PrintHead ==
    /\ At("fetcher", "print_head")
    /\ IF data = <<>>
       THEN /\ stdout' = stdout
            /\ Raise
       ELSE /\ stdout' = stdout \o FormatFrame(DfHead(data[1], HeadRows))
            /\ Advance
    /\ UNCHANGED <<script, run, history, remote, data, requests>>
    /\ UNCHANGED connectorVars

\* print(data.columns)
PrintColumns ==
    /\ At("fetcher", "print_columns")
    /\ IF data = <<>>
       THEN /\ stdout' = stdout
            /\ Raise
       ELSE /\ stdout' = stdout \o FormatIndex(data[1].columns)
            /\ Advance
    /\ UNCHANGED <<script, run, history, remote, data, requests>>
    /\ UNCHANGED connectorVars

\* ------------------------------------------------------------ load.py steps
\* load_dotenv()
LoadDotenvStep ==
    /\ At("connector", "load_dotenv")
    /\ environ' = LoadDotenv(environ, envFile)
    /\ Advance
    /\ UNCHANGED <<script, run, history>>
    /\ UNCHANGED fetcherVars
    /\ UNCHANGED <<connectorInputs, connectorLocals,
                   conn, connArgs, wire, openConns, closes>>

\* db_name = os.getenv("DB_NAME")
GetName ==
    /\ At("connector", "get_name")
    /\ db_name' = Getenv(environ, "DB_NAME")
    /\ Advance
    /\ UNCHANGED <<script, run, history>>
    /\ UNCHANGED fetcherVars
    /\ UNCHANGED <<connectorInputs, environ,
                   db_username, db_password, db_host, db_port,
                   conn, connArgs, wire, openConns, closes>>

\* db_username = os.getenv("DB_USERNAME")
GetUsername ==
    /\ At("connector", "get_username")
    /\ db_username' = Getenv(environ, "DB_USERNAME")
    /\ Advance
    /\ UNCHANGED <<script, run, history>>
    /\ UNCHANGED fetcherVars
    /\ UNCHANGED <<connectorInputs, environ,
                   db_name, db_password, db_host, db_port,
                   conn, connArgs, wire, openConns, closes>>

\* db_password = os.getenv("DB_PASSWORD")
GetPassword ==
    /\ At("connector", "get_password")
    /\ db_password' = Getenv(environ, "DB_PASSWORD")
    /\ Advance
    /\ UNCHANGED <<script, run, history>>
    /\ UNCHANGED fetcherVars
    /\ UNCHANGED <<connectorInputs, environ,
                   db_name, db_username, db_host, db_port,
                   conn, connArgs, wire, openConns, closes>>

\* db_host = os.getenv("DB_HOST")
GetHost ==
    /\ At("connector", "get_host")
    /\ db_host' = Getenv(environ, "DB_HOST")
    /\ Advance
    /\ UNCHANGED <<script, run, history>>
    /\ UNCHANGED fetcherVars
    /\ UNCHANGED <<connectorInputs, environ,
                   db_name, db_username, db_password, db_port,
                   conn, connArgs, wire, openConns, closes>>

\* db_port = os.getenv("DB_PORT")
GetPort ==
    /\ At("connector", "get_port")
    /\ db_port' = Getenv(environ, "DB_PORT")
    /\ Advance
    /\ UNCHANGED <<script, run, history>>
    /\ UNCHANGED fetcherVars
    /\ UNCHANGED <<connectorInputs, environ,
                   db_name, db_username, db_password, db_host,
                   conn, connArgs, wire, openConns, closes>>

\* conn = psycopg2.connect(dbname=..., host=..., password=..., user=..., port=...)
\* Reading a local that was never assigned is a NameError.
Connect ==
    /\ At("connector", "connect")
    /\ IF Unbound \in {db_name, db_username, db_password, db_host, db_port}
       THEN /\ UNCHANGED <<conn, connArgs, wire, openConns>>
            /\ Raise
       ELSE LET args == ConnectKwargs(db_name, db_host, db_password,
                                      db_username, db_port)
            IN  /\ connArgs' = <<args>>
                /\ IF ConnectSucceeds(args, server)
                   THEN /\ conn' = "open"
                        /\ wire' = Append(wire, "open")
                        /\ openConns' = openConns + 1
                        /\ Advance
                   ELSE /\ UNCHANGED <<conn, wire, openConns>>
                        /\ Raise
    /\ UNCHANGED <<script, run, history>>
    /\ UNCHANGED fetcherVars
    /\ UNCHANGED <<connectorInputs, environ, connectorLocals, closes>>

\* Variant: the session is left open on the server.
CloseEffectLeak ==
    /\ conn' = "closed"
    /\ wire' = wire
    /\ openConns' = openConns

\* Variant: a statement is sent on the session before it is closed.
CloseEffectCommit ==
    /\ conn' = "closed"
    /\ wire' = IF conn = "open" THEN wire \o <<"query", "close">> ELSE wire
    /\ openConns' = IF conn = "open" THEN openConns - 1 ELSE openConns

\* What conn.close() does to the handle and to the server.
CloseEffect ==
    /\ conn' = "closed"
    /\ wire' = IF conn = "open" THEN Append(wire, "close") ELSE wire
    /\ openConns' = IF conn = "open" THEN openConns - 1 ELSE openConns

\* Variant: conn.close written without the call, a statement with no effect.
CloseNotCalled ==
    /\ At("connector", "close")
    /\ Advance
    /\ UNCHANGED <<conn, wire, openConns, closes>>
    /\ UNCHANGED <<script, run, history>>
    /\ UNCHANGED fetcherVars
    /\ UNCHANGED <<connectorInputs, environ, connectorLocals, connArgs>>

\* conn.close()
Close ==
    /\ At("connector", "close")
    /\ IF conn = Unbound
       THEN /\ UNCHANGED <<conn, wire, openConns, closes>>
            /\ Raise
       ELSE /\ CloseEffect
            /\ closes' = closes + 1
            /\ Advance
    /\ UNCHANGED <<script, run, history>>
    /\ UNCHANGED fetcherVars
    /\ UNCHANGED <<connectorInputs, environ, connectorLocals, connArgs>>

\* ------------------------------------------------------------ invocations
\* What an observer of one invocation sees once the process has ended.
Outcome ==
    [exit |-> exit, stdout |-> stdout, requests |-> requests,
     wire |-> wire, openConns |-> openConns]

\* The script is started again: a new process, the same inputs.
Rerun ==
    /\ exit # "running"
    /\ run < MaxRuns
    /\ run' = run + 1
    /\ history' = Append(history, Outcome)
    /\ pc' = 1
    /\ exit' = "running"
    /\ data' = <<>>
    /\ stdout' = <<>>
    /\ requests' = 0
    /\ environ' = procEnv
    /\ db_name' = Unbound
    /\ db_username' = Unbound
    /\ db_password' = Unbound
    /\ db_host' = Unbound
    /\ db_port' = Unbound
    /\ conn' = Unbound
    /\ connArgs' = <<>>
    /\ wire' = <<>>
    /\ closes' = 0
    /\ UNCHANGED <<script, remote, connectorInputs, openConns>>

RerunFetcher == script = "fetcher" /\ Rerun
RerunConnector == script = "connector" /\ Rerun

NextFetcher == ReadParquet \/ PrintHead \/ PrintColumns \/ RerunFetcher

NextConnector ==
    \/ LoadDotenvStep
    \/ GetName \/ GetUsername \/ GetPassword \/ GetHost \/ GetPort
    \/ Connect
    \/ Close
    \/ RerunConnector

Next == NextFetcher \/ NextConnector

Spec == Init /\ [][Next]_vars
SpecFetcher == InitFetcher /\ [][NextFetcher]_vars
SpecConnector == InitConnector /\ [][NextConnector]_vars

TypeOK ==
    /\ script \in {"fetcher", "connector"}
    /\ run \in 1..MaxRuns
    /\ exit \in {"running", "ok", "error"}
    /\ pc \in 1..(Len(Stmts) + 1)
    /\ requests \in Nat
    /\ openConns \in Nat
    /\ conn \in {Unbound, "open", "closed"}

\* ------------------------------------------------------------ properties
\* The connection parameter each environment variable is passed as.
ParamOf(v) ==
    CASE v = "DB_NAME" -> "dbname"
      [] v = "DB_USERNAME" -> "user"
      [] v = "DB_PASSWORD" -> "password"
      [] v = "DB_HOST" -> "host"
      [] v = "DB_PORT" -> "port"

\* The local variable each environment variable is read into.
LocalOf(v) ==
    CASE v = "DB_NAME" -> db_name
      [] v = "DB_USERNAME" -> db_username
      [] v = "DB_PASSWORD" -> db_password
      [] v = "DB_HOST" -> db_host
      [] v = "DB_PORT" -> db_port

\* The value of a variable in the process environment, None when unset.
EnvValue(v) == IF v \in DOMAIN environ THEN environ[v] ELSE None

Ended == exit # "running"

\* Open sessions on the server when the current invocation started.
Baseline == IF history = <<>> THEN 0 ELSE history[Len(history)].openConns

\* All five variables are set to what a reachable server expects.
AllMatch ==
    /\ server.reachable
    /\ \A v \in EnvNames : EnvValue(v) = server.expects[ParamOf(v)]

\* C1: in every run of the Connector in which the connection was opened, the
\* handle has been closed exactly once when the process ends, and the number
\* of open sessions is back at its value before the run; when all five
\* variables match a reachable server the process ends without error.
C1_ClosedExactlyOnce ==
    (script = "connector" /\ Ended) =>
        /\ (conn # Unbound) =>
              /\ closes = 1
              /\ conn = "closed"
              /\ exit = "ok"
              /\ openConns = Baseline
        /\ AllMatch => (exit = "ok" /\ conn = "closed" /\ openConns = Baseline)

C1_Witness ==
    /\ script = "connector"
    /\ exit = "ok"
    /\ AllMatch
    /\ closes = 1
    /\ wire = <<"open", "close">>

\* C2 (as stated): when any of the five variables is unset or differs from
\* what the server expects, the process ends with an error and conn.close()
\* is never executed.
C2_UnsetOrIncorrectFails ==
    (/\ script = "connector"
     /\ Ended
     /\ \E v \in EnvNames :
           EnvValue(v) = None \/ EnvValue(v) # server.expects[ParamOf(v)])
    => (exit = "error" /\ closes = 0)

\* The value the client library ends up using for a variable.
EffectiveValue(v) ==
    IF EnvValue(v) = None THEN LibDefault(ParamOf(v)) ELSE EnvValue(v)

\* C2 (amended): when any of the five variables has a value the server
\* rejects, or is unset and the client library's default for that parameter
\* is rejected, the process ends with an error at the connection attempt and
\* conn.close() is never executed.
C2_RejectedFails ==
    (/\ script = "connector"
     /\ Ended
     /\ \E v \in EnvNames : EffectiveValue(v) # server.expects[ParamOf(v)])
    => (/\ exit = "error"
        /\ closes = 0
        /\ conn = Unbound
        /\ ConnectorStmts[pc] = "connect")

C2_Witness ==
    /\ script = "connector"
    /\ exit = "error"
    /\ server.reachable
    /\ \E v \in EnvNames : EnvValue(v) = None /\ server.expects[ParamOf(v)] # "b"
    /\ \E v \in EnvNames : EnvValue(v) \in Val /\ EnvValue(v) # server.expects[ParamOf(v)]
    /\ closes = 0

\* C3: when the remote file cannot be fetched or parsed, the Fetcher ends with
\* an error at the read and prints nothing; anything printed was printed after
\* a successful read.
C3_FailedReadPrintsNothing ==
    (script = "fetcher") =>
        /\ (remote.status # "ok") =>
              /\ stdout = <<>>
              /\ Ended => (exit = "error" /\ FetcherStmts[pc] = "read_parquet")
        /\ (stdout # <<>>) => (remote.status = "ok" /\ data # <<>>)

C3_Witness ==
    /\ script = "fetcher"
    /\ remote.status = "unreachable"
    /\ exit = "error"
    /\ requests = 1
    /\ stdout = <<>>

IsRowLine(l) == l.kind = "row"
IsColumnsLine(l) == l.kind = "columns"

\* C4: when the remote file is well formed and has at least 10 rows, the
\* Fetcher's output has exactly 10 row lines, the first 10 rows of the file in
\* order, followed by one listing of all the file's column names.
C4_FirstTenRowsThenColumns ==
    (script = "fetcher" /\ exit = "ok" /\ remote.status = "ok"
        /\ Len(remote.rows) >= 10) =>
        LET rowLines == SelectSeq(stdout, IsRowLine)
            last == stdout[Len(stdout)]
        IN  /\ Len(rowLines) = 10
            /\ \A i \in 1..10 : rowLines[i].cells = <<remote.rows[i]>>
            /\ Len(SelectSeq(stdout, IsColumnsLine)) = 1
            /\ last = [kind |-> "columns", cells |-> remote.columns]
            /\ Len(stdout) = 12

C4_Witness ==
    /\ script = "fetcher"
    /\ exit = "ok"
    /\ Len(remote.rows) = 11
    /\ remote.rows[10] # remote.rows[11]
    /\ Len(stdout) = 12

\* C5: every keyword argument of the connection attempt is the value of its
\* environment variable, None when the variable is not set; the script does
\* not fail before the connection attempt.
C5_ArgsAreEnvValues ==
    (script = "connector") =>
        /\ (connArgs # <<>>) =>
              \A v \in EnvNames : connArgs[1][ParamOf(v)] = EnvValue(v)
        /\ (exit = "error") => (connArgs # <<>>)

C5_Witness ==
    /\ script = "connector"
    /\ connArgs # <<>>
    /\ \E v \in EnvNames : connArgs[1][ParamOf(v)] = None
    /\ \E v \in EnvNames : connArgs[1][ParamOf(v)] = "a"
    /\ \E v \in EnvNames : connArgs[1][ParamOf(v)] = "b"

\* C6: every invocation of a script against unchanged inputs ends with the
\* same observable outcome as the first one.
C6_RunsAgree ==
    /\ \A i \in 1..Len(history) : history[i] = history[1]
    /\ (Ended /\ history # <<>>) =>
          /\ exit = history[1].exit
          /\ stdout = history[1].stdout
          /\ requests = history[1].requests
          /\ wire = history[1].wire
          /\ openConns = history[1].openConns

C6_Witness ==
    /\ run > 1
    /\ exit = "ok"
    /\ script = "connector"
    /\ history[1].wire = <<"open", "close">>

\* C7: the server sees from one run of the Connector at most one session, and
\* nothing between its opening and its closing.
C7_NothingBetweenOpenAndClose ==
    (script = "connector") =>
        /\ wire \in {<<>>, <<"open">>, <<"open", "close">>}
        /\ (exit = "ok") => (wire = <<"open", "close">>)

C7_Witness ==
    /\ script = "connector"
    /\ exit = "ok"
    /\ wire = <<"open", "close">>
    /\ openConns = 0

\* C8: a variable is read only after the environment file has been loaded,
\* the process ends only after all five were read, and a key set only in the
\* environment file reaches the connection attempt with the file's value.
C8_LoadThenReadThenConnect ==
    (script = "connector") =>
        /\ (\E v \in EnvNames : LocalOf(v) # Unbound) =>
              (envFile.present => DOMAIN envFile.pairs \subseteq DOMAIN environ)
        /\ (Ended \/ connArgs # <<>>) =>
              (\A v \in EnvNames : LocalOf(v) # Unbound)
        /\ (connArgs # <<>>) =>
              \A k \in (DOMAIN envFile.pairs) \ (DOMAIN procEnv) :
                  connArgs[1][ParamOf(k)] = envFile.pairs[k]

C8_Witness ==
    /\ script = "connector"
    /\ connArgs # <<>>
    /\ envFile.present
    /\ "DB_NAME" \in (DOMAIN envFile.pairs) \ (DOMAIN procEnv)
    /\ connArgs[1].dbname = "a"

\* C9: a run of the Fetcher issues exactly one network request, whether the
\* request fails or succeeds.
C9_OneRequest ==
    (script = "fetcher") =>
        /\ requests <= 1
        /\ (pc > 1 \/ Ended) => (requests = 1)

C9_Witness ==
    /\ script = "fetcher"
    /\ exit = "error"
    /\ remote.status = "malformed"
    /\ requests = 1

\* C10: a variable already set in the process environment keeps its value
\* when the environment file also defines it; the file's value is used only
\* for a key that was not set.
C10_FileDoesNotOverride ==
    (script = "connector") =>
        /\ \A k \in DOMAIN procEnv : k \in DOMAIN environ /\ environ[k] = procEnv[k]
        /\ (connArgs # <<>>) =>
              \A k \in EnvNames :
                  connArgs[1][ParamOf(k)] =
                      IF k \in DOMAIN procEnv THEN procEnv[k]
                      ELSE IF k \in DOMAIN envFile.pairs THEN envFile.pairs[k]
                      ELSE None

C10_Witness ==
    /\ script = "connector"
    /\ connArgs # <<>>
    /\ envFile.present
    /\ "DB_HOST" \in DOMAIN procEnv
    /\ "DB_HOST" \in DOMAIN envFile.pairs
    /\ procEnv["DB_HOST"] = "b"
    /\ envFile.pairs["DB_HOST"] = "a"
    /\ connArgs[1].host = "b"
====
